---- MODULE Spec2Model ----
(***************************************************************************)
(* Model of the ImageFilter engine (src/src/main.cpp:360-742, declared in  *)
(* src/unnamed/part_001): border-index resolver, 2D/3D padding, separable  *)
(* 1D correlation and the Gaussian / Sobel pipelines built on it.          *)
(*                                                                         *)
(* Arrays are functions over 0..n-1, as the code indexes them.  A sample   *)
(* is an exact rational num/den: a matrix holds the numerators and the     *)
(* denominator is carried next to it (input samples have den = 1, a kernel *)
(* carries its own den, a correlation multiplies the two).  NaN is a       *)
(* distinguished sample that absorbs every arithmetic operation.           *)
(***************************************************************************)
EXTENDS Integers, Sequences, FiniteSets, TLC

VARIABLES
    pc,          \* "idle": no call in progress; "gaussian_loop", "sobel_loop":
                 \* inside the axis loop of a pipeline; "done": the call has finished
    op,          \* the operation called
    input,       \* its input volume (a Mat2D for pad2D)
    weights,     \* the kernel argument of correlate1d, also when a pipeline
                 \* makes the call
    axis,        \* the axis argument of correlate1d and sobel
    borderType,  \* the border-mode code
    cval,        \* the fill value
    pads,        \* the pad amounts of pad2D / pad3D
    sigma8,      \* eight times the sigma argument of gaussian_filter
    z_arg,       \* the slice index of extractSlice
    idx_arg,     \* the idx argument of getMirrorIndex
    size_arg,    \* its size argument
    ret,         \* the index it returned
    output,      \* the returned volume, or the output parameter of correlate1d;
                 \* inside a pipeline, its local variable result
    outDen,      \* the denominator of the samples of output
    err,         \* "none", or the kind of the exception thrown
    loopAx,      \* the loop variable (axis / ax) of gaussian_filter and sobel
    original_slices, \* the original_slices argument of save_mat3d_to_dcm: the
                 \* metadata object of each original slice
    loopZ,       \* the loop variable z of save_mat3d_to_dcm
    files,       \* the files save_mat3d_to_dcm has written so far
    ub,          \* the call read outside a vector (undefined behaviour)
    garbage      \* what such reads yielded

vars == <<pc, op, input, weights, axis, borderType, cval, pads, sigma8, z_arg,
          idx_arg, size_arg, ret,
          output, outDen, err, loopAx, original_slices, loopZ, files, ub, garbage>>

(***************************************************************************)
(* Bounds of the explored inputs.                                          *)
(***************************************************************************)
MaxCells == 4
MaxStep == 2
MaxPad == 2
MaxRadius == 2
MaxSigma8 == 3
MaxSize == 3

(***************************************************************************)
(* Program constants.                                                      *)
(***************************************************************************)
\* default eps of isClose is 1e-6 = 1 / EpsInv
EpsInv == 1000000
\* the value std::exp yields for sigma = 0: exp(-0.5 / 0 * 0 * 0) = exp(NaN)
NaN == -2147483647

CONSTANT_MODE == 0
REPLICATE == 1
REFLECT == 2
REFLECT_101 == 3

(***************************************************************************)
(* Array helpers.                                                          *)
(***************************************************************************)
Size(f) == Cardinality(DOMAIN f)

\* a 1-based tuple as the 0-based array the code sees
Z(seq) == [i \in 0..(Len(seq) - 1) |-> seq[i + 1]]

Abs(x) == IF x < 0 THEN -x ELSE x

\* a clamp that forgets the lower limit
clamp_mut(v, lo, hi) == IF hi < v THEN hi ELSE v

\* std::clamp(v, lo, hi)
clamp(v, lo, hi) == IF v < lo THEN lo ELSE IF hi < v THEN hi ELSE v

\* IEEE-754 double arithmetic on exact values: NaN absorbs
Mul(a, b) == IF a = NaN \/ b = NaN THEN NaN ELSE a * b
Add(a, b) == IF a = NaN \/ b = NaN THEN NaN ELSE a + b
Sub(a, b) == IF a = NaN \/ b = NaN THEN NaN ELSE a - b

\* input[r][c] of a Mat2D; a read outside the vector is undefined behaviour
\* and yields whatever the memory holds (g)
At2(m, r, c, g) ==
    IF r \in DOMAIN m /\ c \in DOMAIN m[r] THEN m[r][c] ELSE g

\* whether input[r][c] lies inside the vectors
InRange2(m, r, c) == r \in DOMAIN m /\ c \in DOMAIN m[r]

\* every row of the slice m has the length of its first row
Rectangular2(m) == \A i \in DOMAIN m : Size(m[i]) = Size(m[0])

\* every slice of the volume v has the row count of the first slice, and
\* every row the length of the first row
Rectangular3(v) ==
    \A z \in DOMAIN v :
       /\ Size(v[z]) = Size(v[0])
       /\ \A i \in DOMAIN v[z] : Size(v[z][i]) = Size(v[0][0])

(***************************************************************************)
(* BorderIndexResolver                                                     *)
(***************************************************************************)
\* a resolver whose REFLECT rule is off by one behind the far edge
getMirrorIndex_mut(idx, size, bt) ==
    IF size <= 0 THEN 0
    ELSE CASE bt = 1 -> IF idx < 0 THEN 0 ELSE IF idx > size - 1 THEN size - 1 ELSE idx
           [] bt = 2 -> IF idx < 0 THEN -idx - 1
                        ELSE IF idx >= size THEN 2 * size - idx
                        ELSE idx
           [] bt = 3 -> IF idx < 0 THEN -idx
                        ELSE IF idx >= size THEN 2 * size - idx - 2
                        ELSE idx
           [] OTHER -> 0

getMirrorIndex(idx, size, bt) ==
    IF size <= 0 THEN 0
    ELSE CASE bt = 1 -> clamp(idx, 0, size - 1)
           [] bt = 2 -> IF idx < 0 THEN -idx - 1
                        ELSE IF idx >= size THEN 2 * size - idx - 1
                        ELSE idx
           [] bt = 3 -> IF idx < 0 THEN -idx
                        ELSE IF idx >= size THEN 2 * size - idx - 2
                        ELSE idx
           [] OTHER -> 0

\* a getBorderValue that treats every code other than 1, 2, 3 as Constant
getBorderValueDefault_mut(in, row, col, rows, cols, bt, cv, g) ==
    IF row >= 0 /\ row < rows /\ col >= 0 /\ col < cols
    THEN At2(in, row, col, g)
    ELSE IF bt \notin 1..3 THEN cv
    ELSE At2(in, getMirrorIndex(row, rows, bt), getMirrorIndex(col, cols, bt), g)

\* a getBorderValue that substitutes the fill value in every mode
getBorderValue_mut(in, row, col, rows, cols, bt, cv, g) ==
    IF row >= 0 /\ row < rows /\ col >= 0 /\ col < cols
    THEN At2(in, row, col, g)
    ELSE cv

getBorderValue(in, row, col, rows, cols, bt, cv, g) ==
    IF row >= 0 /\ row < rows /\ col >= 0 /\ col < cols
    THEN At2(in, row, col, g)
    ELSE IF bt = 0 THEN cv
    ELSE At2(in, getMirrorIndex(row, rows, bt), getMirrorIndex(col, cols, bt), g)

\* the source cell getBorderValue reads for (row, col), <<-1, -1>> when it
\* returns cval without reading
borderRead(row, col, rows, cols, bt) ==
    IF row >= 0 /\ row < rows /\ col >= 0 /\ col < cols THEN <<row, col>>
    ELSE IF bt = 0 THEN <<-1, -1>>
    ELSE <<getMirrorIndex(row, rows, bt), getMirrorIndex(col, cols, bt)>>

(***************************************************************************)
(* Padding                                                                 *)
(***************************************************************************)
\* a top/bottom loop that passes mirror_row, not mirror_row - pad_row
pad2DRowBorder_mut(in, pad_row, pad_col, bt, cv, g, i, j) ==
    LET rows == Size(in)
        cols == Size(in[0])
        mirror_row == pad_row - i - 1
        col_idx == j - pad_col
        original_col == getMirrorIndex(col_idx, cols, bt)
    IN getBorderValue(in, mirror_row, original_col, rows, cols, bt, cv, g)

\* pad2D, lines 412-433: the value the top/bottom loop computes in its
\* iteration i for column j (written to rows i and new_rows - 1 - i)
pad2DRowBorder(in, pad_row, pad_col, bt, cv, g, i, j) ==
    LET rows == Size(in)
        cols == Size(in[0])
        mirror_row == pad_row - i - 1
        col_idx == j - pad_col
        original_col == getMirrorIndex(col_idx, cols, bt)
    IN getBorderValue(in, mirror_row - pad_row, original_col, rows, cols, bt, cv, g)

\* a left/right loop that passes mirror_col, not mirror_col - pad_col
pad2DColBorder_mut(in, pad_row, pad_col, bt, cv, g, i, j) ==
    LET rows == Size(in)
        cols == Size(in[0])
        mirror_col == pad_col - j - 1
        original_row == i - pad_row
    IN getBorderValue(in, original_row, mirror_col, rows, cols, bt, cv, g)

\* pad2D, lines 435-447: the value the left/right loop computes for row i in
\* its iteration j (written to columns j and new_cols - 1 - j)
pad2DColBorder(in, pad_row, pad_col, bt, cv, g, i, j) ==
    LET rows == Size(in)
        cols == Size(in[0])
        mirror_col == pad_col - j - 1
        original_row == i - pad_row
    IN getBorderValue(in, original_row, mirror_col - pad_col, rows, cols, bt, cv, g)

\* the top/bottom loop of a pad2D that runs one iteration too many
pad2DTopRows_mut(pad_row) == 0..pad_row

\* the iterations of the top/bottom loop: for (i = 0; i < pad_row; ++i)
pad2DTopRows(pad_row) == 0..(pad_row - 1)

\* result[i][j] after the three loops of pad2D (the last write wins)
pad2DCell(in, pad_row, pad_col, bt, cv, g, i, j) ==
    LET rows == Size(in)
        cols == Size(in[0])
        new_rows == rows + 2 * pad_row
        new_cols == cols + 2 * pad_col
    IN IF i >= pad_row /\ i < new_rows - pad_row /\ j \in 0..(pad_col - 1)
       THEN pad2DColBorder(in, pad_row, pad_col, bt, cv, g, i, j)
       ELSE IF i >= pad_row /\ i < new_rows - pad_row
               /\ (new_cols - 1 - j) \in 0..(pad_col - 1)
       THEN pad2DColBorder(in, pad_row, pad_col, bt, cv, g, i, new_cols - 1 - j)
       ELSE IF (new_rows - 1 - i) \in pad2DTopRows(pad_row)
       THEN pad2DRowBorder(in, pad_row, pad_col, bt, cv, g, new_rows - 1 - i, j)
       ELSE IF i \in pad2DTopRows(pad_row)
       THEN pad2DRowBorder(in, pad_row, pad_col, bt, cv, g, i, j)
       ELSE At2(in, i - pad_row, j - pad_col, g)

\* a pad2D that allocates the halo on one side only
pad2D_mut(in, pad_row, pad_col, bt, cv, g) ==
    IF Size(in) = 0 THEN << >>
    ELSE LET new_rows == Size(in) + pad_row
             new_cols == Size(in[0]) + pad_col
         IN [i \in 0..(new_rows - 1) |->
               [j \in 0..(new_cols - 1) |->
                  pad2DCell(in, pad_row, pad_col, bt, cv, g, i, j)]]

pad2D(in, pad_row, pad_col, bt, cv, g) ==
    IF Size(in) = 0 THEN << >>
    ELSE LET new_rows == Size(in) + 2 * pad_row
             new_cols == Size(in[0]) + 2 * pad_col
         IN [i \in 0..(new_rows - 1) |->
               [j \in 0..(new_cols - 1) |->
                  pad2DCell(in, pad_row, pad_col, bt, cv, g, i, j)]]

\* the source cells pad2D reads through getBorderValue
pad2DReads(in, pad_row, pad_col, bt) ==
    LET rows == Size(in)
        cols == Size(in[0])
        new_rows == rows + 2 * pad_row
        new_cols == cols + 2 * pad_col
    IN {borderRead(pad_row - i - 1 - pad_row,
                   getMirrorIndex(j - pad_col, cols, bt), rows, cols, bt) :
            i \in 0..(pad_row - 1), j \in 0..(new_cols - 1)}
       \cup
       {borderRead(i - pad_row, pad_col - j - 1 - pad_col, rows, cols, bt) :
            i \in pad_row..(new_rows - pad_row - 1), j \in 0..(pad_col - 1)}

\* whether pad2D reads outside its input (undefined behaviour): in a border
\* read, or in the copy of the central block, which reads cols = input[0].size()
\* samples of every row
pad2DUB(in, pad_row, pad_col, bt) ==
    /\ Size(in) > 0
    /\ \/ \E rc \in pad2DReads(in, pad_row, pad_col, bt) :
             rc # <<-1, -1>> /\ ~InRange2(in, rc[1], rc[2])
       \/ \E i \in DOMAIN in : Size(in[i]) < Size(in[0])

\* pad3D, lines 480-511: the source slice of the added depth slice whose
\* logical depth index is d (d < 0 in front, d >= depth behind)
\* a depth source index that always takes the nearest slice
pad3DSrcZ_mut(d, depth, bt) == clamp(d, 0, depth - 1)

pad3DSrcZ(d, depth, bt) == clamp(getMirrorIndex(d, depth, bt), 0, depth - 1)

\* pad2D(in, ...)[i][j]: one cell of a padded slice, read as the depth loops
\* of pad3D read sliced_padded[src_z][i][j]
pad2DAt(in, pad_row, pad_col, bt, cv, g, i, j) ==
    IF /\ Size(in) > 0
       /\ i \in 0..(Size(in) + 2 * pad_row - 1)
       /\ j \in 0..(Size(in[0]) + 2 * pad_col - 1)
    THEN pad2DCell(in, pad_row, pad_col, bt, cv, g, i, j)
    ELSE g

pad3D(in, pd, bt, cv, g) ==
    IF Size(in) = 0 THEN [err |-> "none", out |-> << >>]
    ELSE IF Size(pd) < 2 THEN [err |-> "InvalidArgument", out |-> << >>]
    ELSE LET pad_row == pd[0]
             pad_col == pd[1]
             pad_depth == IF Size(pd) > 2 THEN pd[2] ELSE 0
             depth == Size(in)
             sliced_padded(z) == pad2D(in[z], pad_row, pad_col, bt, cv, g)
             new_depth == depth + 2 * pad_depth
             new_rows == Size(sliced_padded(0))
             new_cols == Size(sliced_padded(0)[0])
         IN [err |-> "none",
             out |-> [z \in 0..(new_depth - 1) |->
                        IF z >= pad_depth /\ z < pad_depth + depth
                        THEN sliced_padded(z - pad_depth)
                        ELSE [i \in 0..(new_rows - 1) |->
                                [j \in 0..(new_cols - 1) |->
                                   IF bt = 0 THEN cv
                                   ELSE pad2DAt(in[pad3DSrcZ(z - pad_depth, depth, bt)],
                                                pad_row, pad_col, bt, cv, g, i, j)]]]]

\* whether pad3D reads outside a vector (undefined behaviour): in the pad2D
\* of a slice, or in a depth loop, which reads new_rows x new_cols samples
\* (the shape of padded slice 0) of the padded source slice
pad3DUB(in, pd, bt) ==
    /\ Size(in) > 0 /\ Size(pd) >= 2
    /\ \/ \E z \in DOMAIN in : pad2DUB(in[z], pd[0], pd[1], bt)
       \/ /\ Size(pd) > 2 /\ pd[2] > 0 /\ bt # 0
          /\ \E d \in (-pd[2])..(-1) \cup Size(in)..(Size(in) + pd[2] - 1) :
                LET src == in[pad3DSrcZ(d, Size(in), bt)]
                IN Size(src) < Size(in[0]) \/ Size(src[0]) < Size(in[0][0])

(***************************************************************************)
(* Correlation Engine                                                      *)
(* A kernel is [den, w]: weight i is the rational w[i] / den.              *)
(***************************************************************************)
\* isClose(a, b) with the default eps: fabs(a - b) < 1e-6, for a and b given
\* as numerators over den, i.e. |a - b| * EpsInv < den; false on NaN
isClose(a, b, den) ==
    /\ a # NaN /\ b # NaN
    /\ Abs(a - b) <= (den - 1) \div EpsInv

Neg(a) == IF a = NaN THEN NaN ELSE -a

\* weights[i]; a read past the end of the vector is undefined behaviour
WAt(w, i, g) == IF i \in DOMAIN w THEN w[i] ELSE g

\* padded[z][i][j]; a read outside the vectors is undefined behaviour
At3(m, z, i, j, g) ==
    IF z \in DOMAIN m /\ i \in DOMAIN m[z] /\ j \in DOMAIN m[z][i]
    THEN m[z][i][j] ELSE g

\* lines 539-545: the symmetry test of correlate1d
\* the kernel indices the symmetry test of correlate1d reads:
\* weights[k_half + i] and weights[k_half - i] for i = 1..k_half
symmetryTestReads(ksize) ==
    LET k_half == ksize \div 2
    IN UNION {{k_half + i, k_half - i} : i \in 1..k_half}

\* the indices along the filtered axis at which the three summation paths
\* read the padded buffer, for an axis of n samples: center - i and
\* center + i (i = 0..k_half) in the paired paths, center - k_half + i
\* (i = 0..ksize-1) in the general path, with center = k_half + position
paddedReads(n, ksize) ==
    LET k_half == ksize \div 2
    IN UNION {{k_half + q - i : i \in (-k_half)..k_half}
              \cup {k_half + q - k_half + i : i \in 0..(ksize - 1)} : q \in 0..(n - 1)}

kernelSymmetric(k, g) ==
    LET k_half == Size(k.w) \div 2
    IN \A i \in 1..k_half :
          isClose(WAt(k.w, k_half + i, g), WAt(k.w, k_half - i, g), k.den)

kernelAntiSymmetric(k, g) ==
    LET k_half == Size(k.w) \div 2
    IN \A i \in 1..k_half :
          isClose(WAt(k.w, k_half + i, g), Neg(WAt(k.w, k_half - i, g)), k.den)

\* the sample of the padded buffer at distance off from the centre tap of
\* output coordinate (z, r, c), along axis ax (pads[ax] = k_half, others 0)
tap(padded, ax, k_half, z, r, c, off, g) ==
    CASE ax = 0 -> At3(padded, z, k_half + r + off, c, g)
      [] ax = 1 -> At3(padded, z, r, k_half + c + off, g)
      [] ax = 2 -> At3(padded, k_half + z + off, r, c, g)

\* the pairing of a tap pair in a symmetric path that subtracts instead
symPair_mut(left, right) == Sub(left, right)

\* lines 557-558: the symmetric path adds the two taps of a pair
symPair(left, right) == Add(left, right)

\* lines 563-564: the antisymmetric path takes left minus right
antiPair(left, right) == Sub(left, right)

\* lines 554-559: sum = centre * w[k_half] + SUM (left_i + right_i) * w[k_half + i]
sumSymmetric(padded, k, ax, z, r, c, g) ==
    LET k_half == Size(k.w) \div 2
        acc[i \in 0..k_half] ==
            IF i = 0
            THEN Mul(tap(padded, ax, k_half, z, r, c, 0, g), WAt(k.w, k_half, g))
            ELSE Add(acc[i - 1],
                     Mul(symPair(tap(padded, ax, k_half, z, r, c, -i, g),
                                 tap(padded, ax, k_half, z, r, c, i, g)),
                         WAt(k.w, k_half + i, g)))
    IN acc[k_half]

\* lines 560-565: sum = centre * w[k_half] + SUM (left_i - right_i) * w[k_half + i]
sumAntiSymmetric(padded, k, ax, z, r, c, g) ==
    LET k_half == Size(k.w) \div 2
        acc[i \in 0..k_half] ==
            IF i = 0
            THEN Mul(tap(padded, ax, k_half, z, r, c, 0, g), WAt(k.w, k_half, g))
            ELSE Add(acc[i - 1],
                     Mul(antiPair(tap(padded, ax, k_half, z, r, c, -i, g),
                                  tap(padded, ax, k_half, z, r, c, i, g)),
                         WAt(k.w, k_half + i, g)))
    IN acc[k_half]

\* lines 566-570: sum = SUM padded[centre - k_half + i] * w[i], i in [0, ksize)
sumGeneral(padded, k, ax, z, r, c, g) ==
    LET ksize == Size(k.w)
        k_half == ksize \div 2
        acc[n \in 0..ksize] ==
            IF n = 0 THEN 0
            ELSE Add(acc[n - 1],
                     Mul(tap(padded, ax, k_half, z, r, c, (n - 1) - k_half, g),
                         WAt(k.w, n - 1, g)))
    IN acc[ksize]

\* output[z][r][c] of correlate1d: the path is chosen once from the kernel
correlate1dCell(padded, k, ax, z, r, c, g) ==
    IF kernelSymmetric(k, g) THEN sumSymmetric(padded, k, ax, z, r, c, g)
    ELSE IF kernelAntiSymmetric(k, g) THEN sumAntiSymmetric(padded, k, ax, z, r, c, g)
    ELSE sumGeneral(padded, k, ax, z, r, c, g)

\* the pads vector of correlate1d: pads[axis] = k_half, the others 0
corrPads(ax, k_half) == [a \in 0..2 |-> IF a = ax THEN k_half ELSE 0]

\* a correlate1d that sizes its output like the padded buffer
correlate1d_mut(in, inDen, k, ax, bt, cv, g) ==
    IF Size(in) = 0 \/ Size(k.w) = 0
    THEN [err |-> "none", wrote |-> FALSE, out |-> << >>, den |-> 1]
    ELSE IF ax < 0 \/ ax > 2
    THEN [err |-> "InvalidArgument", wrote |-> FALSE, out |-> << >>, den |-> 1]
    ELSE LET ksize == Size(k.w)
             k_half == ksize \div 2
             padded == pad3D(in, corrPads(ax, k_half), bt, Mul(cv, inDen), g).out
         IN [err |-> "none", wrote |-> TRUE,
             out |-> [z \in DOMAIN padded |-> [r \in DOMAIN padded[z] |->
                        [c \in DOMAIN padded[z][r] |->
                           correlate1dCell(padded, k, ax, z, r, c, g)]]],
             den |-> inDen * k.den]

\* correlate1d(input, weights, axis, output, borderType, cval) for an input
\* whose samples are numerators over inDen.  wrote = FALSE: the function left
\* the caller's output untouched (early return or throw).
correlate1d(in, inDen, k, ax, bt, cv, g) ==
    IF Size(in) = 0 \/ Size(k.w) = 0
    THEN [err |-> "none", wrote |-> FALSE, out |-> << >>, den |-> 1]
    ELSE IF ax < 0 \/ ax > 2
    THEN [err |-> "InvalidArgument", wrote |-> FALSE, out |-> << >>, den |-> 1]
    ELSE LET ksize == Size(k.w)
             k_half == ksize \div 2
             padded == pad3D(in, corrPads(ax, k_half), bt, Mul(cv, inDen), g).out
             depth == Size(in)
             rows == Size(in[0])
             cols == Size(in[0][0])
         IN [err |-> "none", wrote |-> TRUE,
             out |-> [z \in 0..(depth - 1) |-> [r \in 0..(rows - 1) |->
                        [c \in 0..(cols - 1) |->
                           correlate1dCell(padded, k, ax, z, r, c, g)]]],
             den |-> inDen * k.den]

\* whether correlate1d reads outside a vector: in the padding, weights[ksize]
\* in the symmetry test of an even-length kernel, or padded samples of a slice
\* that is smaller than input[0] (the loops run over the shape of input[0])
correlate1dUB(in, k, ax, bt) ==
    /\ Size(in) > 0 /\ Size(k.w) > 0 /\ ax \in 0..2
    /\ \/ Size(k.w) % 2 = 0
       \/ pad3DUB(in, corrPads(ax, Size(k.w) \div 2), bt)
       \/ \E z \in DOMAIN in :
             Size(in[z]) < Size(in[0]) \/ Size(in[z][0]) < Size(in[0][0])

(***************************************************************************)
(* Kernel Factory.  sigma is given in eighths (sigma = sigma8 / 8).        *)
(***************************************************************************)
\* std::exp(-0.5 / sigma2 * x * x) for sigma = sigma8 / 8 > 0, in hundredths
\* (rounded to nearest): 100 * exp(-32 * x * x / (sigma8 * sigma8))
expQ(s8, x) ==
    IF x = 0 THEN 100
    ELSE CASE s8 = 3 /\ x = 1 -> 3
           [] s8 = 4 /\ x = 1 -> 14
           [] s8 = 5 /\ x = 1 -> 28
           [] s8 = 5 /\ x = 2 -> 1
           [] OTHER -> 0

\* gaussian_kernel1d(sigma, radius): the normalised kernel is w[i] / sum.
\* For sigma = 0 the exponent is -0.5 / 0 * x * x: NaN at x = 0, so the sum
\* and every normalised weight are NaN.
gaussian_kernel1d(s8, radius) ==
    LET n == 2 * radius + 1
        raw == [i \in 0..(n - 1) |-> expQ(s8, Abs(i - radius))]
        sum[i \in 0..n] == IF i = 0 THEN 0 ELSE sum[i - 1] + raw[i - 1]
    IN IF s8 = 0
       THEN [den |-> 1, w |-> [i \in 0..(n - 1) |-> NaN]]
       ELSE [den |-> sum[n], w |-> raw]

\* std::reverse(kernel.begin(), kernel.end())
reverse(k) ==
    [den |-> k.den, w |-> [i \in DOMAIN k.w |-> k.w[Size(k.w) - 1 - i]]]

\* a radius that truncates 4 * sigma without adding 0.5
gaussRadius_mut(s8) == s8 \div 2

\* static_cast<int>(4 * sigma + 0.5) = floor((sigma8 + 1) / 2)
gaussRadius(s8) == (s8 + 1) \div 2

(***************************************************************************)
(* Filter Pipelines                                                        *)
(***************************************************************************)
\* one "Mat3D temp; correlate1d(result, kernel, ax, temp, ...); result = temp;"
\* on a result whose samples are numerators over den
stage(result, den, k, ax, bt, cv, g) ==
    LET c == correlate1d(result, den, k, ax, bt, cv, g)
    IN [err |-> c.err,
        out |-> IF c.wrote THEN c.out ELSE << >>,
        den |-> IF c.wrote THEN c.den ELSE 1]

\* the kernel gaussian_filter1d correlates with: radius (int)(4 sigma + 0.5),
\* reversed
gaussian_filter1dKernel(s8) == reverse(gaussian_kernel1d(s8, gaussRadius(s8)))

grad_kernel == [den |-> 1, w |-> Z(<<-1, 0, 1>>)]

\* a smoothing kernel without the doubled centre tap
smooth_kernel_mut == [den |-> 1, w |-> Z(<<1, 1, 1>>)]

smooth_kernel == [den |-> 1, w |-> Z(<<1, 2, 1>>)]

\* whether a pipeline reads outside a vector: every stage has the shape of
\* the input, so the reads of a stage depend on the input's shape only
gaussian_filterUB(in, s8, bt) ==
    \E ax \in 0..2 :
       correlate1dUB(in, gaussian_filter1dKernel(s8), ax, bt)

sobelUB(in, axis_, bt) ==
    /\ axis_ \in 0..2
    /\ \E ax \in 0..2 : correlate1dUB(in, smooth_kernel, ax, bt)

(***************************************************************************)
(* Inputs                                                                  *)
(***************************************************************************)
Shapes == {s \in (1..MaxCells) \X (1..MaxCells) \X (1..MaxCells) :
              s[1] * s[2] * s[3] <= MaxCells}

\* a depth x rows x cols volume whose samples are all different
RampVol(d, r, c, step) ==
    [z \in 0..(d - 1) |-> [i \in 0..(r - 1) |-> [j \in 0..(c - 1) |->
        step * ((z * r + i) * c + j + 1)]]]

\* a row laid along one axis of a volume (0: rows, 1: columns, 2: depth)
AlongAxis(row, ax) ==
    LET n == Len(row)
    IN CASE ax = 0 -> [z \in 0..0 |-> [i \in 0..(n - 1) |-> [j \in 0..0 |-> row[i + 1]]]]
         [] ax = 1 -> [z \in 0..0 |-> [i \in 0..0 |-> [j \in 0..(n - 1) |-> row[j + 1]]]]
         [] ax = 2 -> [z \in 0..(n - 1) |-> [i \in 0..0 |-> [j \in 0..0 |-> row[z + 1]]]]

EdgeRow == <<0, 0, 0, 10, 10, 10>>

\* a degenerate volume of one sample
SingleSample == <<5>>

\* ragged volumes: a slice whose second row is shorter than its first, a
\* slice whose second row is longer, and a volume whose second slice has
\* fewer rows than its first
RaggedVolumes ==
    {Z(<<Z(<<Z(<<1, 2>>), Z(<<3>>)>>)>>),
     Z(<<Z(<<Z(<<1>>), Z(<<2, 3>>)>>)>>),
     Z(<<Z(<<Z(<<1>>), Z(<<2>>)>>), Z(<<Z(<<3>>)>>)>>)}

\* the largest sample a 16-bit slice holds, between two of the smallest
FullScale == <<0, 65535, 0>>

\* the volumes sobel is called with: its kernels are integers, so a
\* full-scale volume is filtered without leaving the 32-bit integers
SobelVolumes == {AlongAxis(FullScale, 1)}

Volumes ==
    {RampVol(s[1], s[2], s[3], step) : s \in Shapes, step \in 1..MaxStep}
    \cup {AlongAxis(EdgeRow, ax) : ax \in 0..2}
    \cup {AlongAxis(SingleSample, 1)}
    \cup RaggedVolumes
    \cup {<< >>}

Slices == {v[0] : v \in {w \in Volumes : Size(w) = 1}} \cup {<< >>}

Modes == 0..3
\* border-mode codes that name no mode: borderType is an int
InvalidModes == {-1, 4}
\* the codes the resolver is called with
ResolverModes == Modes \cup InvalidModes
\* the codes the padding operations are called with
PadModes == Modes \cup {4}
CVals == {0, 50}
\* what a read outside a vector may yield
Garbage == {-7, 11}

\* the values the reads outside a vector may yield in a call: no such read
\* takes place when the call has no undefined behaviour
GarbageIf(undefined) == IF undefined THEN Garbage ELSE {0}

PadLists == UNION {[0..(n - 1) -> 0..MaxPad] : n \in 0..3}

Axes == -1..3

\* 1e-6 = 2 / NearDen: two weights one unit of 1 / NearDen apart are "close"
NearDen == 2 * EpsInv
HalfVals == {1, 2}
KernelKinds == {"sym", "near", "anti", "gen"}

\* a kernel of radius r with left half h (h[i] at distance i from the centre),
\* centre tap 2 and a right half that mirrors the left one exactly ("sym"),
\* within the tolerance ("near"), negated ("anti") or not at all ("gen")
MakeKernel(r, h, kind) ==
    LET scale == IF kind = "near" THEN NearDen ELSE 1
        right(v) == CASE kind = "sym" -> v
                      [] kind = "near" -> v * scale + 1
                      [] kind = "anti" -> -v
                      [] kind = "gen" -> v + 1
    IN [den |-> scale,
        w |-> [i \in 0..(2 * r) |->
                 IF i < r THEN h[r - i] * scale
                 ELSE IF i = r THEN 2 * scale
                 ELSE right(h[i - r])]]

\* an empty weights vector
NoKernel == [den |-> 1, w |-> << >>]

ExampleKernels ==
    {grad_kernel, smooth_kernel, [den |-> 4, w |-> Z(<<1, 2, 1>>)]}

\* kernels of even length (the spec's kernels have odd length 2r+1)
EvenKernels == {[den |-> 1, w |-> Z(<<1, 1>>)], [den |-> 1, w |-> Z(<<1, -1>>)]}

Kernels ==
    UNION {{MakeKernel(r, h, kind) : h \in [1..r -> HalfVals], kind \in KernelKinds} :
              r \in 0..MaxRadius}
    \cup ExampleKernels \cup EvenKernels \cup {NoKernel}

Sigmas == 0..MaxSigma8

\* the size and idx arguments of getMirrorIndex: sizes from the degenerate
\* -1 and 0 up, indices up to more than two sizes outside [0, size)
Sizes == -1..MaxSize
Indices == (-(2 * MaxSize) - 1)..(3 * MaxSize)

(***************************************************************************)
(* State machine: one call of a static operation at a time.                *)
(***************************************************************************)
Init ==
    /\ pc = "idle"
    /\ op = "none"
    /\ input = << >>
    /\ weights = NoKernel
    /\ axis = 0
    /\ borderType = 0
    /\ cval = 0
    /\ pads = << >>
    /\ sigma8 = 0
    /\ z_arg = 0
    /\ idx_arg = 0
    /\ size_arg = 0
    /\ ret = 0
    /\ output = << >>
    /\ outDen = 1
    /\ err = "none"
    /\ loopAx = 0
    /\ original_slices = << >>
    /\ loopZ = 0
    /\ files = << >>
    /\ ub = FALSE
    /\ garbage = 0

Call_pad2D ==
    /\ pc = "idle"
    /\ \E in \in Slices, pr \in 0..MaxPad, pcol \in 0..MaxPad,
          bt \in PadModes, cv \in CVals :
      \E g \in GarbageIf(pad2DUB(in, pr, pcol, bt)) :
        /\ pc' = "done"
        /\ op' = "pad2D"
        /\ input' = in
        /\ pads' = Z(<<pr, pcol>>)
        /\ borderType' = bt
        /\ cval' = cv
        /\ output' = pad2D(in, pr, pcol, bt, cv, g)
        /\ outDen' = 1
        /\ err' = "none"
        /\ ub' = pad2DUB(in, pr, pcol, bt)
        /\ garbage' = g
        /\ UNCHANGED <<weights, axis, sigma8, z_arg, idx_arg, size_arg, ret, original_slices, loopZ, files, loopAx>>

Call_pad3D ==
    /\ pc = "idle"
    /\ \E in \in Volumes, pd \in PadLists, bt \in PadModes, cv \in CVals :
      \E g \in GarbageIf(pad3DUB(in, pd, bt)) :
        LET r == pad3D(in, pd, bt, cv, g)
        IN /\ pc' = "done"
           /\ op' = "pad3D"
           /\ input' = in
           /\ pads' = pd
           /\ borderType' = bt
           /\ cval' = cv
           /\ output' = r.out
           /\ outDen' = 1
           /\ err' = r.err
           /\ ub' = pad3DUB(in, pd, bt)
           /\ garbage' = g
           /\ UNCHANGED <<weights, axis, sigma8, z_arg, idx_arg, size_arg, ret, original_slices, loopZ, files, loopAx>>

\* the call has returned (or thrown); the engine keeps no state between calls
Return ==
    /\ pc = "done"
    /\ pc' = "idle"
    /\ op' = "none"
    /\ input' = << >>
    /\ weights' = NoKernel
    /\ axis' = 0
    /\ borderType' = 0
    /\ cval' = 0
    /\ pads' = << >>
    /\ sigma8' = 0
    /\ z_arg' = 0
    /\ idx_arg' = 0
    /\ size_arg' = 0
    /\ ret' = 0
    /\ output' = << >>
    /\ outDen' = 1
    /\ err' = "none"
    /\ loopAx' = 0
    /\ original_slices' = << >>
    /\ loopZ' = 0
    /\ files' = << >>
    /\ ub' = FALSE
    /\ garbage' = 0

\* correlate1d is called with a fresh (empty) output, as every caller in the
\* repository does ("Mat3D temp;")
Call_correlate1d ==
    /\ pc = "idle"
    /\ \E in \in Volumes, k \in Kernels, ax \in Axes, bt \in Modes, cv \in CVals :
      \E g \in GarbageIf(correlate1dUB(in, k, ax, bt)) :
        LET r == correlate1d(in, 1, k, ax, bt, cv, g)
        IN /\ pc' = "done"
           /\ op' = "correlate1d"
           /\ input' = in
           /\ weights' = k
           /\ axis' = ax
           /\ borderType' = bt
           /\ cval' = cv
           /\ output' = IF r.wrote THEN r.out ELSE output
           /\ outDen' = IF r.wrote THEN r.den ELSE outDen
           /\ err' = r.err
           /\ ub' = correlate1dUB(in, k, ax, bt)
           /\ garbage' = g
           /\ UNCHANGED <<pads, sigma8, z_arg, idx_arg, size_arg, ret, original_slices, loopZ, files, loopAx>>

\* gaussian_filter up to its loop: "if (input.empty()) return {}; result = input;"
Call_gaussian_filter ==
    /\ pc = "idle"
    /\ \E in \in Volumes, s8 \in Sigmas, bt \in Modes, cv \in CVals :
      \E g \in GarbageIf(gaussian_filterUB(in, s8, bt)) :
        /\ pc' = IF Size(in) = 0 THEN "done" ELSE "gaussian_loop"
        /\ op' = "gaussian_filter"
        /\ input' = in
        /\ sigma8' = s8
        /\ borderType' = bt
        /\ cval' = cv
        /\ output' = in
        /\ outDen' = 1
        /\ err' = "none"
        /\ loopAx' = 0
        /\ ub' = gaussian_filterUB(in, s8, bt)
        /\ garbage' = g
        /\ UNCHANGED <<weights, axis, pads, z_arg, idx_arg, size_arg, ret, original_slices, loopZ, files>>

\* an iteration of the loop of gaussian_filter that filters in place: it
\* writes the stage's result over the caller's volume
Step_gaussian_filter1d_mut ==
    /\ pc = "gaussian_loop"
    /\ \E k \in {gaussian_filter1dKernel(sigma8)} :
        LET r == stage(output, outDen, k, loopAx, borderType, cval, garbage)
        IN /\ weights' = k
           /\ output' = r.out
           /\ input' = r.out
           /\ outDen' = r.den
           /\ err' = r.err
           /\ loopAx' = loopAx + 1
           /\ pc' = IF loopAx + 1 < 3 /\ r.err = "none" THEN "gaussian_loop" ELSE "done"
    /\ UNCHANGED <<op, axis, borderType, cval, pads, sigma8, z_arg,
                   idx_arg, size_arg, ret, original_slices, loopZ, files,
                   ub, garbage>>

\* one iteration of the loop of gaussian_filter:
\* "Mat3D temp; gaussian_filter1d(result, sigma, axis, temp, ...); result = temp;"
Step_gaussian_filter1d ==
    /\ pc = "gaussian_loop"
    /\ \E k \in {gaussian_filter1dKernel(sigma8)} :
        LET r == stage(output, outDen, k, loopAx, borderType, cval, garbage)
        IN /\ weights' = k
           /\ output' = r.out
           /\ outDen' = r.den
           /\ err' = r.err
           /\ loopAx' = loopAx + 1
           /\ pc' = IF loopAx + 1 < 3 /\ r.err = "none" THEN "gaussian_loop" ELSE "done"
    /\ UNCHANGED <<op, input, axis, borderType, cval, pads, sigma8, z_arg,
                   idx_arg, size_arg, ret, original_slices, loopZ, files,
                   ub, garbage>>

\* sobel up to its smoothing loop: the two checks and the gradient correlation
Call_sobel ==
    /\ pc = "idle"
    /\ \E in \in Volumes \cup SobelVolumes, ax \in Axes, bt \in Modes, cv \in CVals :
      \E g \in GarbageIf(sobelUB(in, ax, bt)) :
        LET r == IF Size(in) = 0 THEN [err |-> "none", out |-> << >>, den |-> 1]
                 ELSE IF ax < 0 \/ ax > 2
                 THEN [err |-> "InvalidArgument", out |-> << >>, den |-> 1]
                 ELSE stage(in, 1, grad_kernel, ax, bt, cv, g)
        IN /\ pc' = IF Size(in) = 0 \/ r.err # "none" THEN "done" ELSE "sobel_loop"
           /\ op' = "sobel"
           /\ input' = in
           /\ axis' = ax
           /\ borderType' = bt
           /\ cval' = cv
           /\ output' = r.out
           /\ outDen' = r.den
           /\ err' = r.err
           /\ weights' = IF Size(in) = 0 \/ ax < 0 \/ ax > 2 THEN weights ELSE grad_kernel
           /\ loopAx' = 0
           /\ ub' = sobelUB(in, ax, bt)
           /\ garbage' = g
           /\ UNCHANGED <<pads, sigma8, z_arg, idx_arg, size_arg, ret, original_slices, loopZ, files>>

\* one iteration of the smoothing loop of sobel:
\* "for (ax = 0; ax < 3; ++ax) if (ax != axis) { correlate1d(result, ...); result = temp; }"
Step_sobel_smooth ==
    /\ pc = "sobel_loop"
    /\ LET r == IF loopAx # axis
                THEN stage(output, outDen, smooth_kernel, loopAx, borderType, cval, garbage)
                ELSE [err |-> "none", out |-> output, den |-> outDen]
       IN /\ weights' = IF loopAx # axis THEN smooth_kernel ELSE weights
          /\ output' = r.out
          /\ outDen' = r.den
          /\ err' = r.err
          /\ loopAx' = loopAx + 1
          /\ pc' = IF loopAx + 1 < 3 /\ r.err = "none" THEN "sobel_loop" ELSE "done"
    /\ UNCHANGED <<op, input, axis, borderType, cval, pads, sigma8, z_arg,
                   idx_arg, size_arg, ret, original_slices, loopZ, files,
                   ub, garbage>>

\* the slice indices a caller passes to extractSlice: below, inside and
\* beyond every depth of Volumes
SliceIndices == -1..MaxCells

\* extractSlice with the upper bound test off by one (z > size)
extractSlice_mut(mat3d, z) ==
    IF Size(mat3d) = 0 THEN [err |-> "InvalidArgument", out |-> << >>]
    ELSE IF z < 0 \/ z > Size(mat3d) THEN [err |-> "OutOfRange", out |-> << >>]
    ELSE [err |-> "none", out |-> IF z \in DOMAIN mat3d THEN mat3d[z] ELSE << >>]

\* ImageFilter::extractSlice: the error thrown ("none" for a normal return)
\* and the returned slice
extractSlice(mat3d, z) ==
    IF Size(mat3d) = 0 THEN [err |-> "InvalidArgument", out |-> << >>]
    ELSE IF z < 0 \/ z >= Size(mat3d) THEN [err |-> "OutOfRange", out |-> << >>]
    ELSE [err |-> "none", out |-> mat3d[z]]

Call_extractSlice ==
    /\ pc = "idle"
    /\ \E v \in Volumes, z \in SliceIndices :
        LET r == extractSlice(v, z)
        IN /\ pc' = "done"
           /\ op' = "extractSlice"
           /\ input' = v
           /\ z_arg' = z
           /\ err' = r.err
           /\ output' = r.out
    /\ UNCHANGED <<weights, axis, borderType, cval, pads, sigma8, idx_arg, size_arg,
                   ret, outDen, loopAx, original_slices, loopZ, files, ub, garbage>>

(***************************************************************************)
(* Persistence boundary: save_mat3d_to_dcm, called by main with the        *)
(* filtered volume and the slices the volume was read from.                *)
(***************************************************************************)
\* the DcmSlice objects of n original slices: metadata and z position
DcmSlices(n) == [z \in 0..(n - 1) |-> [file_format |-> 10 + z, z_pos |-> 2 * z]]

\* the slice counts a caller may pass with a volume of the given depth
SliceCounts(depth) == {n \in {depth - 1, depth, depth + 1} : n >= 0}

\* what static_cast<uint16_t> of NaN may yield (undefined behaviour)
UndefinedPixels == {0, 65535}
UndefinedPixelsIf(undefined) == IF undefined THEN UndefinedPixels ELSE {0}

\* whether slice m holds a NaN sample
HasNaN(m) == \E y \in DOMAIN m : \E x \in DOMAIN m[y] : m[y][x] = NaN

\* the slice whose metadata every output file gets, were it always the first
originalOf_mut(slices, z) == slices[0]

\* original_slices[z]
originalOf(slices, z) == slices[z]

\* a conversion that rounds without clamping: the cast wraps modulo 2^16
toPixel_mut(n, d, u) ==
    IF n = NaN THEN u
    ELSE ((n \div d) + (IF 2 * (n % d) >= d THEN 1 ELSE 0)) % 65536

\* static_cast<uint16_t>(std::round(std::clamp(val, 0.0, 65535.0))) of the
\* sample n / d (d > 0): std::clamp returns NaN for NaN, whose cast is
\* undefined (u); std::round rounds halves away from zero
toPixel(n, d, u) ==
    IF n = NaN THEN u
    ELSE IF n < 0 THEN 0
    ELSE IF n \div d >= 65535 THEN 65535
    ELSE (n \div d) + (IF 2 * (n % d) >= d THEN 1 ELSE 0)

\* save_mat3d_to_dcm up to its loop: the two checks and the output folder
Call_save_mat3d_to_dcm ==
    /\ pc = "done" /\ op \in {"gaussian_filter", "sobel"} /\ err = "none"
    /\ \E n \in SliceCounts(Size(output)), created \in BOOLEAN :
        LET empty == \/ Size(output) = 0
                     \/ Size(output[0]) = 0
                     \/ Size(output[0][0]) = 0
            ok == ~empty /\ Size(output) = n /\ created
        IN /\ op' = "save_mat3d_to_dcm"
           /\ original_slices' = DcmSlices(n)
           /\ err' = IF ok THEN "none" ELSE "runtime_error"
           /\ pc' = IF ok THEN "save_loop" ELSE "done"
           /\ loopZ' = 0
           /\ files' = << >>
    /\ UNCHANGED <<input, weights, axis, borderType, cval, pads, sigma8, z_arg,
                   idx_arg, size_arg, ret, output, outDen, loopAx, ub, garbage>>

\* one iteration of the loop of save_mat3d_to_dcm: slice z = loopZ is
\* checked, converted and saved as filtered_slice_<z+1>.dcm
Step_save_slice ==
    /\ pc = "save_loop"
    /\ LET z == loopZ
           height == Size(output[0])
           width == Size(output[0][0])
           misshapen == Size(output[z]) # height \/ Size(output[z][0]) # width
       IN \E saved \in BOOLEAN, u \in UndefinedPixelsIf(HasNaN(output[z])) :
            IF misshapen \/ ~saved
            THEN /\ err' = "runtime_error"
                 /\ pc' = "done"
                 /\ UNCHANGED <<loopZ, files, ub>>
            ELSE /\ files' = Append(files,
                      [name |-> z + 1,
                       file_format |-> originalOf(original_slices, z).file_format,
                       SliceLocation |-> originalOf(original_slices, z).z_pos,
                       PixelData |-> [y \in 0..(height - 1) |-> [x \in 0..(width - 1) |->
                                        toPixel(output[z][y][x], outDen, u)]]])
                 /\ ub' = (ub \/ HasNaN(output[z]))
                 /\ loopZ' = z + 1
                 /\ pc' = IF z + 1 < Size(output) THEN "save_loop" ELSE "done"
                 /\ err' = "none"
    /\ UNCHANGED <<op, input, weights, axis, borderType, cval, pads, sigma8, z_arg,
                   idx_arg, size_arg, ret, output, outDen, loopAx, original_slices,
                   garbage>>

\* a call of the private helper getMirrorIndex, as pad2D, pad3D and
\* getBorderValue make it
Call_getMirrorIndex ==
    /\ pc = "idle"
    /\ \E i \in Indices, n \in Sizes, bt \in ResolverModes :
        /\ pc' = "done"
        /\ op' = "getMirrorIndex"
        /\ idx_arg' = i
        /\ size_arg' = n
        /\ borderType' = bt
        /\ ret' = getMirrorIndex(i, n, bt)
        /\ err' = "none"
    /\ UNCHANGED <<input, weights, axis, cval, pads, sigma8, z_arg, output, outDen,
                   loopAx, original_slices, loopZ, files, ub, garbage>>

NextResolve == Call_getMirrorIndex \/ Return

SpecResolve == Init /\ [][NextResolve]_vars

NextSlice == Call_extractSlice \/ Return

SpecSlice == Init /\ [][NextSlice]_vars

\* the resolver and the two padding operations that call it
NextBorder == Call_getMirrorIndex \/ Call_pad2D \/ Call_pad3D \/ Return

SpecBorder == Init /\ [][NextBorder]_vars

NextPad == Call_pad2D \/ Call_pad3D \/ Return

SpecPad == Init /\ [][NextPad]_vars

NextCorr == Call_correlate1d \/ Return

SpecCorr == Init /\ [][NextCorr]_vars

\* the pipeline of main: a filter, then the save of its result
NextSave ==
    \/ Call_gaussian_filter
    \/ Step_gaussian_filter1d
    \/ Call_sobel
    \/ Step_sobel_smooth
    \/ Call_save_mat3d_to_dcm
    \/ Step_save_slice
    \/ Return

SpecSave == Init /\ [][NextSave]_vars

NextFilter ==
    \/ Call_gaussian_filter
    \/ Step_gaussian_filter1d
    \/ Call_sobel
    \/ Step_sobel_smooth
    \/ Return

SpecFilter == Init /\ [][NextFilter]_vars

\* the operations that correlate: correlate1d and the two pipelines
NextConv ==
    \/ Call_correlate1d
    \/ Call_gaussian_filter
    \/ Step_gaussian_filter1d
    \/ Call_sobel
    \/ Step_sobel_smooth
    \/ Return

SpecConv == Init /\ [][NextConv]_vars

\* the five public operations that take a volume and produce a volume
NextEngine ==
    \/ Call_pad2D
    \/ Call_pad3D
    \/ Call_correlate1d
    \/ Call_gaussian_filter
    \/ Step_gaussian_filter1d
    \/ Call_sobel
    \/ Step_sobel_smooth
    \/ Return

SpecEngine == Init /\ [][NextEngine]_vars

Next ==
    \/ Call_getMirrorIndex
    \/ Call_extractSlice
    \/ Call_pad2D
    \/ Call_pad3D
    \/ Call_correlate1d
    \/ Call_gaussian_filter
    \/ Step_gaussian_filter1d
    \/ Call_sobel
    \/ Step_sobel_smooth
    \/ Call_save_mat3d_to_dcm
    \/ Step_save_slice
    \/ Return

Spec == Init /\ [][Next]_vars

(***************************************************************************)
(* Properties                                                              *)
(***************************************************************************)
\* the pad amounts of the finished pad2D / pad3D call
padRowOf == pads[0]
padColOf == pads[1]
padDepthOf == IF Size(pads) > 2 THEN pads[2] ELSE 0

PadReturned(o) == pc = "done" /\ op = o /\ err = "none" /\ Size(input) > 0

\* C1: padding round-trip.  For every non-empty rectangular volume, border
\* mode, fill value and pad triple, the block of pad3D's result at offset
\* (padDepth, padRows, padCols) with the input's extents equals the input,
\* and the block of pad2D's result at offset (padRows, padCols) equals its
\* 2D input.
C1_PadRoundTrip ==
    /\ (PadReturned("pad3D") /\ Rectangular3(input)) =>
          \A z \in DOMAIN input : \A i \in DOMAIN input[z] : \A j \in DOMAIN input[z][i] :
             /\ (z + padDepthOf) \in DOMAIN output
             /\ (i + padRowOf) \in DOMAIN output[z + padDepthOf]
             /\ (j + padColOf) \in DOMAIN output[z + padDepthOf][i + padRowOf]
             /\ output[z + padDepthOf][i + padRowOf][j + padColOf] = input[z][i][j]
    /\ (PadReturned("pad2D") /\ Rectangular2(input)) =>
          \A i \in DOMAIN input : \A j \in DOMAIN input[i] :
             /\ (i + padRowOf) \in DOMAIN output
             /\ (j + padColOf) \in DOMAIN output[i + padRowOf]
             /\ output[i + padRowOf][j + padColOf] = input[i][j]

\* C1 witness: a reflecting pad3D call with a halo on all three axes around a
\* volume of several samples has returned, and the central block is the input
C1_Witness ==
    /\ PadReturned("pad3D")
    /\ borderType = REFLECT
    /\ Size(pads) = 3 /\ pads[0] > 0 /\ pads[1] > 0 /\ pads[2] > 0
    /\ Size(input) > 1 /\ Size(input[0][0]) > 1
    /\ \A z \in DOMAIN input : \A i \in DOMAIN input[z] : \A j \in DOMAIN input[z][i] :
          output[z + pads[2]][i + pads[0]][j + pads[1]] = input[z][i][j]

\* C2: in pad2D under Replicate, Reflect or Reflect101 every border cell at
\* padded position (i, j) holds input[resolve(i - padRows)][resolve(j - padCols)]
\* (stated for the cells whose resolved source cell exists).
C2_BorderCellsResolved ==
    (PadReturned("pad2D") /\ Rectangular2(input)
       /\ borderType \in {REPLICATE, REFLECT, REFLECT_101}) =>
       \A i \in DOMAIN output : \A j \in DOMAIN output[i] :
          LET rows == Size(input)
              cols == Size(input[0])
              r == getMirrorIndex(i - padRowOf, rows, borderType)
              c == getMirrorIndex(j - padColOf, cols, borderType)
          IN InRange2(input, r, c) => output[i][j] = input[r][c]

\* a correlate1d call that computed an output for a rectangular volume
Correlated ==
    /\ pc = "done" /\ op = "correlate1d" /\ err = "none"
    /\ Size(input) > 0 /\ Size(weights.w) > 0 /\ axis \in 0..2
    /\ Rectangular3(input)

\* the kernel has odd length 2r+1, as the spec's kernels have
OddKernel(k) == Size(k.w) % 2 = 1

\* weight[r+i] = weight[r-i] for all i in [1, r], exactly
ExactlySymmetric(k) ==
    LET r == Size(k.w) \div 2
    IN OddKernel(k) /\ \A i \in 1..r : k.w[r + i] = k.w[r - i]

\* weight[r+i] = -weight[r-i] for all i in [1, r], exactly
ExactlyAntiSymmetric(k) ==
    LET r == Size(k.w) \div 2
    IN OddKernel(k) /\ \A i \in 1..r : k.w[r + i] = -k.w[r - i]

\* the padded buffer of the finished correlate1d call
PaddedOfCall ==
    pad3D(input, corrPads(axis, Size(weights.w) \div 2), borderType, cval, garbage).out

\* the extent of the input along the axis of the call
AxisSize == CASE axis = 0 -> Size(input[0])
              [] axis = 1 -> Size(input[0][0])
              [] axis = 2 -> Size(input)

\* the input sample at position n along the axis of the call, through (z, r, c)
AlongInput(z, r, c, n) ==
    CASE axis = 0 -> input[z][n][c]
      [] axis = 1 -> input[z][r][n]
      [] axis = 2 -> input[n][r][c]

\* the position of output coordinate (z, r, c) along the axis of the call
AxisPos(z, r, c) == CASE axis = 0 -> r [] axis = 1 -> c [] axis = 2 -> z

\* SUM over the 2r+1 taps of weight[i] * x[max(0, min(centre - r + i, size-1))]
ClampedSum(z, r, c) ==
    LET ksize == Size(weights.w)
        k_half == ksize \div 2
        acc[n \in 0..ksize] ==
            IF n = 0 THEN 0
            ELSE acc[n - 1]
                 + weights.w[n - 1]
                   * AlongInput(z, r, c,
                                clamp(AxisPos(z, r, c) - k_half + (n - 1), 0, AxisSize - 1))
    IN acc[ksize]

QuarterSmooth == [den |-> 4, w |-> Z(<<1, 2, 1>>)]

\* C3: correlate1D under Replicate, along any axis, returns at every
\* coordinate the weighted sum of the 2r+1 neighbouring samples with the
\* neighbour index clamped to the nearest edge at both ends of the axis
\* (stated for the kernels whose halves mirror exactly); the row [2,4,6,8]
\* with kernel [0.25,0.5,0.25] yields [2.5, 4.0, 6.0, 7.5], i.e. [10,16,24,30]/4.
C3_ReplicateCorrelation ==
    /\ (Correlated /\ borderType = REPLICATE /\ ExactlySymmetric(weights)) =>
          \A z \in DOMAIN output : \A r \in DOMAIN output[z] : \A c \in DOMAIN output[z][r] :
             output[z][r][c] = ClampedSum(z, r, c)
    /\ (Correlated /\ borderType = REPLICATE /\ weights = QuarterSmooth
          /\ input = AlongAxis(<<2, 4, 6, 8>>, axis)) =>
          (outDen = 4 /\ output = AlongAxis(<<10, 16, 24, 30>>, axis))

\* C4: for every antisymmetric kernel the result of the antisymmetric paired
\* path equals the general weighted sum over all 2r+1 taps,
\* SUM padded[centre - r + i] * weight[i], at every output coordinate.
C4_AntiSymmetricEqualsGeneral ==
    (Correlated /\ ExactlyAntiSymmetric(weights)
       /\ ~kernelSymmetric(weights, garbage)) =>
       \A z \in DOMAIN output : \A r \in DOMAIN output[z] : \A c \in DOMAIN output[z][r] :
          output[z][r][c] = sumGeneral(PaddedOfCall, weights, axis, z, r, c, garbage)

\* C5 as stated: for every kernel that correlate1D classifies as symmetric
\* (weight[r+i] within 1e-6 of weight[r-i]) the result of the symmetric
\* paired path equals the general weighted sum at every output coordinate.
C5_ClassifiedSymmetricEqualsGeneral ==
    (Correlated /\ OddKernel(weights) /\ kernelSymmetric(weights, garbage)) =>
       \A z \in DOMAIN output : \A r \in DOMAIN output[z] : \A c \in DOMAIN output[z][r] :
          output[z][r][c] = sumGeneral(PaddedOfCall, weights, axis, z, r, c, garbage)

\* C5 amended: for every kernel whose paired weights are exactly equal
\* (weight[r+i] = weight[r-i]) the result of the symmetric paired path equals
\* the general weighted sum over all 2r+1 taps at every output coordinate.
C5_ExactlySymmetricEqualsGeneral ==
    (Correlated /\ ExactlySymmetric(weights)) =>
       \A z \in DOMAIN output : \A r \in DOMAIN output[z] : \A c \in DOMAIN output[z][r] :
          output[z][r][c] = sumGeneral(PaddedOfCall, weights, axis, z, r, c, garbage)

\* C5 witness: a correlation with an exactly symmetric kernel of radius 2
\* along an axis of extent at least 3 has produced the general weighted sum,
\* and its border taps carry weight
C5_Witness ==
    /\ Correlated /\ ExactlySymmetric(weights)
    /\ Size(weights.w) = 5 /\ weights.w[0] # 0 /\ weights.w[1] # weights.w[0]
    /\ AxisSize >= 3
    /\ borderType = REFLECT
    /\ \A z \in DOMAIN output : \A r \in DOMAIN output[z] : \A c \in DOMAIN output[z][r] :
          /\ output[z][r][c] = sumGeneral(PaddedOfCall, weights, axis, z, r, c, garbage)
          /\ output[z][r][c] # 0

\* C6: correlate1D with the gradient kernel {-1,0,1}, unreversed, under
\* Replicate computes output[k] = x[k+1] - x[k-1] along the axis (indices
\* clamped at the edges); the row [0,0,0,10,10,10] yields [0,0,10,10,0,0].
C6_GradientNoReversal ==
    /\ (Correlated /\ borderType = REPLICATE /\ weights = grad_kernel) =>
          \A z \in DOMAIN output : \A r \in DOMAIN output[z] : \A c \in DOMAIN output[z][r] :
             output[z][r][c] =
                AlongInput(z, r, c, clamp(AxisPos(z, r, c) + 1, 0, AxisSize - 1))
                - AlongInput(z, r, c, clamp(AxisPos(z, r, c) - 1, 0, AxisSize - 1))
    /\ (Correlated /\ borderType = REPLICATE /\ weights = grad_kernel
          /\ input = AlongAxis(EdgeRow, axis)) =>
          (outDen = 1 /\ output = AlongAxis(<<0, 0, 10, 10, 0, 0>>, axis))

\* the samples of output, as rationals, are those of the volume v
SameVolume(v) ==
    /\ DOMAIN output = DOMAIN v
    /\ \A z \in DOMAIN v :
          /\ DOMAIN output[z] = DOMAIN v[z]
          /\ \A r \in DOMAIN v[z] :
                /\ DOMAIN output[z][r] = DOMAIN v[z][r]
                /\ \A c \in DOMAIN v[z][r] :
                      /\ output[z][r][c] # NaN
                      /\ output[z][r][c] = v[z][r][c] * outDen

\* C7: identity Gaussian.  gaussian_filter with sigma = 0 returns a volume
\* equal to the input volume, for every volume and border mode.
C7_IdentityGaussian ==
    (pc = "done" /\ op = "gaussian_filter" /\ sigma8 = 0) =>
       (err = "none" /\ SameVolume(input))

\* C8: every call of correlate1D or Sobel with an axis outside {0,1,2} fails
\* with InvalidArgument and produces no output, whatever the other arguments
\* are (including an empty volume or an empty kernel).
C8_InvalidAxisRejected ==
    (pc = "done" /\ op \in {"correlate1d", "sobel"} /\ axis \notin 0..2) =>
       (err = "InvalidArgument" /\ output = << >>)

\* C9: an empty input volume (depth 0) is rejected with InvalidArgument by
\* pad3D, by correlate1D and by Sobel; none of them returns normally.
C9_EmptyInputRejected ==
    (pc = "done" /\ op \in {"pad3D", "correlate1d", "sobel"} /\ Size(input) = 0) =>
       err = "InvalidArgument"

\* C10: correlate1D called with an empty kernel fails with InvalidArgument
\* for every input volume.
C10_EmptyKernelRejected ==
    (pc = "done" /\ op = "correlate1d" /\ Size(weights.w) = 0) =>
       err = "InvalidArgument"

\* C11: pad3D called with fewer than 2 pad values fails with InvalidArgument
\* for every input volume (the empty one included); with exactly 2 pad values
\* the depth pad amount is 0: the result has the depth of the input.
C11_PadListChecked ==
    /\ (pc = "done" /\ op = "pad3D" /\ Size(pads) < 2) => err = "InvalidArgument"
    /\ (pc = "done" /\ op = "pad3D" /\ Size(pads) = 2 /\ err = "none") =>
          Size(output) = Size(input)

\* a getMirrorIndex call has returned
Resolved == pc = "done" /\ op = "getMirrorIndex"

MirrorModes == {REPLICATE, REFLECT, REFLECT_101}

\* C12 as stated: for every size >= 1, every mode in {Replicate, Reflect,
\* Reflect101} and every idx with -size <= idx <= 2*size - 1, the resolver
\* returns an index in [0, size-1].
C12_InRangeUpToSize ==
    (Resolved /\ size_arg >= 1 /\ borderType \in MirrorModes
       /\ -size_arg <= idx_arg /\ idx_arg <= 2 * size_arg - 1) =>
       (0 <= ret /\ ret <= size_arg - 1)

\* C12 amended: for every size >= 1 the resolver returns an index in
\* [0, size-1] under Replicate for every idx, under Reflect for
\* -size <= idx <= 2*size - 1 (out-of-range distance at most size), and under
\* Reflect101 for -(size-1) <= idx <= 2*size - 2 (distance at most size - 1).
C12_InRangeSingleBounce ==
    (Resolved /\ size_arg >= 1) =>
       /\ borderType = REPLICATE => (0 <= ret /\ ret <= size_arg - 1)
       /\ (borderType = REFLECT /\ -size_arg <= idx_arg /\ idx_arg <= 2 * size_arg - 1) =>
             (0 <= ret /\ ret <= size_arg - 1)
       /\ (borderType = REFLECT_101 /\ -(size_arg - 1) <= idx_arg
             /\ idx_arg <= 2 * size_arg - 2) =>
             (0 <= ret /\ ret <= size_arg - 1)

\* C12 witness: Reflect101 has resolved the farthest index it can in front
\* of an axis of 3 samples, -2, to the last sample
C12_Witness ==
    /\ Resolved /\ borderType = REFLECT_101
    /\ size_arg = 3 /\ idx_arg = -(size_arg - 1)
    /\ ret = size_arg - 1

\* C13: the resolver implements the per-mode rules: Replicate returns
\* max(0, min(idx, size-1)); Reflect returns -idx-1 for idx < 0 and
\* 2*size-idx-1 for idx >= size; Reflect101 returns -idx for idx < 0 and
\* 2*size-idx-2 for idx >= size; Reflect and Reflect101 return an in-range idx
\* unchanged; for size <= 0 it returns 0 in every mode.
C13_PerModeRules ==
    Resolved =>
       /\ size_arg <= 0 => ret = 0
       /\ (size_arg >= 1 /\ borderType = REPLICATE) =>
             /\ idx_arg < 0 => ret = 0
             /\ idx_arg > size_arg - 1 => ret = size_arg - 1
             /\ (0 <= idx_arg /\ idx_arg <= size_arg - 1) => ret = idx_arg
       /\ (size_arg >= 1 /\ borderType = REFLECT) =>
             /\ idx_arg < 0 => ret = -idx_arg - 1
             /\ idx_arg >= size_arg => ret = 2 * size_arg - idx_arg - 1
             /\ (0 <= idx_arg /\ idx_arg < size_arg) => ret = idx_arg
       /\ (size_arg >= 1 /\ borderType = REFLECT_101) =>
             /\ idx_arg < 0 => ret = -idx_arg
             /\ idx_arg >= size_arg => ret = 2 * size_arg - idx_arg - 2
             /\ (0 <= idx_arg /\ idx_arg < size_arg) => ret = idx_arg

\* C13 witness: Reflect has resolved the index one behind the far edge of an
\* axis of 3 samples to the sample before the last
C13_Witness ==
    /\ Resolved /\ borderType = REFLECT
    /\ size_arg = 3 /\ idx_arg = size_arg + 1
    /\ ret = 1

\* C14: Reflect vs Reflect101.  For every row of length >= 2 padded on the
\* left by 1, the left border cell equals the first sample of the row under
\* Reflect and the second sample under Reflect101; the row [1,2,3,4] gives 1
\* and 2.
C14_LeftBorderReflect ==
    /\ (PadReturned("pad2D") /\ padColOf = 1 /\ Rectangular2(input)
          /\ Size(input[0]) >= 2) =>
          \A i \in DOMAIN input :
             /\ borderType = REFLECT => output[i + padRowOf][0] = input[i][0]
             /\ borderType = REFLECT_101 => output[i + padRowOf][0] = input[i][1]
    /\ (PadReturned("pad3D") /\ padColOf = 1 /\ Rectangular3(input)
          /\ Size(input[0][0]) >= 2) =>
          \A z \in DOMAIN input : \A i \in DOMAIN input[z] :
             /\ borderType = REFLECT =>
                   output[z + padDepthOf][i + padRowOf][0] = input[z][i][0]
             /\ borderType = REFLECT_101 =>
                   output[z + padDepthOf][i + padRowOf][0] = input[z][i][1]
    /\ (PadReturned("pad2D") /\ pads = Z(<<0, 1>>) /\ input = Z(<<Z(<<1, 2, 3, 4>>)>>)) =>
          /\ borderType = REFLECT => output[0][0] = 1
          /\ borderType = REFLECT_101 => output[0][0] = 2

\* C14 witness: pad2D has padded the row [1,2,3,4] by one column under
\* Reflect101 and the left border cell holds the second sample, 2
C14_Witness ==
    /\ PadReturned("pad2D") /\ borderType = REFLECT_101
    /\ input = Z(<<Z(<<1, 2, 3, 4>>)>>)
    /\ pads = Z(<<0, 1>>)
    /\ output[0][0] = 2

\* C15: Replicate on a degenerate volume.  Padding a single-sample row [v] by
\* p >= 0 on each side under Replicate yields a row of 2p+1 samples all equal
\* to v ([5] padded by 2 gives [5,5,5,5,5]); so do the rows added above and
\* below it, and the slices pad3D adds to a volume of one sample.
C15_ReplicateSingleSample ==
    /\ (PadReturned("pad2D") /\ borderType = REPLICATE
          /\ Size(input) = 1 /\ Size(input[0]) = 1) =>
          /\ Size(output) = 1 + 2 * padRowOf
          /\ \A i \in DOMAIN output :
                /\ DOMAIN output[i] = 0..(2 * padColOf)
                /\ \A j \in DOMAIN output[i] : output[i][j] = input[0][0]
    /\ (PadReturned("pad3D") /\ borderType = REPLICATE
          /\ Size(input) = 1 /\ Size(input[0]) = 1 /\ Size(input[0][0]) = 1) =>
          \A z \in DOMAIN output : \A i \in DOMAIN output[z] :
             /\ DOMAIN output[z][i] = 0..(2 * padColOf)
             /\ \A j \in DOMAIN output[z][i] : output[z][i][j] = input[0][0][0]
    /\ (PadReturned("pad2D") /\ borderType = REPLICATE
          /\ input = Z(<<Z(SingleSample)>>) /\ pads = Z(<<0, 2>>)) =>
          output = Z(<<Z(<<5, 5, 5, 5, 5>>)>>)

\* C15 witness: pad2D has padded the row [5] by 2 under Replicate into
\* [5,5,5,5,5]
C15_Witness ==
    /\ PadReturned("pad2D") /\ borderType = REPLICATE
    /\ input = Z(<<Z(SingleSample)>>)
    /\ pads = Z(<<0, 2>>)
    /\ output = Z(<<Z(<<5, 5, 5, 5, 5>>)>>)

\* C16: in Constant mode every halo cell produced by pad2D and pad3D (row
\* borders, column borders, corners, and every cell of the added depth
\* slices) equals the fill value, independently of the source samples.
C16_ConstantHalo ==
    /\ (PadReturned("pad2D") /\ borderType = CONSTANT_MODE) =>
          \A i \in DOMAIN output : \A j \in DOMAIN output[i] :
             (\/ i < padRowOf \/ i >= padRowOf + Size(input)
              \/ j < padColOf \/ j >= padColOf + Size(input[0])) =>
                output[i][j] = cval
    /\ (PadReturned("pad3D") /\ borderType = CONSTANT_MODE) =>
          \A z \in DOMAIN output : \A i \in DOMAIN output[z] : \A j \in DOMAIN output[z][i] :
             (\/ z < padDepthOf \/ z >= padDepthOf + Size(input)
              \/ i < padRowOf \/ i >= padRowOf + Size(input[0])
              \/ j < padColOf \/ j >= padColOf + Size(input[0][0])) =>
                output[z][i][j] = cval

\* C16 witness: pad3D has padded a volume of several samples, none equal to
\* the fill value 50, on all three axes in Constant mode; a corner of an
\* added slice, a corner of an original slice and a row-border cell hold 50
C16_Witness ==
    /\ PadReturned("pad3D") /\ borderType = CONSTANT_MODE /\ cval = 50
    /\ Size(pads) = 3 /\ pads[0] > 0 /\ pads[1] > 0 /\ pads[2] > 0
    /\ Size(input) > 1 /\ Size(input[0][0]) > 1
    /\ output[0][0][0] = 50
    /\ output[pads[2]][0][0] = 50
    /\ output[pads[2]][0][pads[1]] = 50
    /\ output[pads[2]][pads[0]][pads[1]] = input[0][0][0]

\* C17: the padded result has extents equal to the source extents plus twice
\* the pad amount on each axis: pad2D returns shape (rows + 2*padRows,
\* cols + 2*padCols) and pad3D returns shape (depth + 2*padDepth,
\* rows + 2*padRows, cols + 2*padCols), every slice and row of the result
\* having the same length.
C17_PaddedShape ==
    /\ (PadReturned("pad2D") /\ Rectangular2(input)) =>
          /\ DOMAIN output = 0..(Size(input) + 2 * padRowOf - 1)
          /\ \A i \in DOMAIN output :
                DOMAIN output[i] = 0..(Size(input[0]) + 2 * padColOf - 1)
    /\ (PadReturned("pad3D") /\ Rectangular3(input)) =>
          /\ DOMAIN output = 0..(Size(input) + 2 * padDepthOf - 1)
          /\ \A z \in DOMAIN output :
                /\ DOMAIN output[z] = 0..(Size(input[0]) + 2 * padRowOf - 1)
                /\ \A i \in DOMAIN output[z] :
                      DOMAIN output[z][i] = 0..(Size(input[0][0]) + 2 * padColOf - 1)

\* C17 witness: pad3D has padded a 2 x 1 x 2 volume by (rows 1, columns 2,
\* depth 1) into a 4 x 3 x 6 volume
C17_Witness ==
    /\ PadReturned("pad3D")
    /\ Size(input) = 2 /\ Size(input[0]) = 1 /\ Size(input[0][0]) = 2
    /\ pads = Z(<<1, 2, 1>>)
    /\ Size(output) = 4
    /\ \A z \in DOMAIN output :
          /\ Size(output[z]) = 3
          /\ \A i \in DOMAIN output[z] : Size(output[z][i]) = 6

\* the volumes a and b have the same depth, row counts and row lengths
SameShape(a, b) ==
    /\ DOMAIN a = DOMAIN b
    /\ \A z \in DOMAIN a :
          /\ DOMAIN a[z] = DOMAIN b[z]
          /\ \A i \in DOMAIN a[z] : DOMAIN a[z][i] = DOMAIN b[z][i]

\* a gaussian_filter or sobel call on a non-empty volume has returned a volume
Filtered ==
    /\ pc = "done" /\ op \in {"gaussian_filter", "sobel"} /\ err = "none"
    /\ Size(input) > 0

\* C18: for every non-empty rectangular volume, non-empty odd-length kernel,
\* axis in {0,1,2} and border mode, the output of correlate1D has exactly the
\* shape (depth, rows, columns) of the input, and so do the outputs of
\* gaussian_filter and Sobel.
C18_OutputShape ==
    /\ (Correlated /\ OddKernel(weights) /\ Rectangular3(input)) =>
          SameShape(output, input)
    /\ (Filtered /\ Rectangular3(input)) => SameShape(output, input)

\* C18 witness: correlate1d has correlated a 1 x 2 x 2 volume along its rows
\* with a kernel of 5 taps (the padded buffer has 6 rows) and the output is
\* 1 x 2 x 2 again
C18_Witness ==
    /\ Correlated /\ Size(weights.w) = 5 /\ axis = 0
    /\ Size(input) = 1 /\ Size(input[0]) = 2 /\ Size(input[0][0]) = 2
    /\ Size(PaddedOfCall[0]) = 6
    /\ SameShape(output, input)

\* floor(4 * sigma + 0.5) for sigma = s8 / 8: the integer r with
\* r <= (s8 + 1) / 2 < r + 1
FloorRadius(s8) ==
    CHOOSE r \in 0..(s8 + 1) : 2 * r <= s8 + 1 /\ s8 + 1 < 2 * r + 2

\* C19: GaussianFilter3D builds the kernel of radius floor(4*sigma + 0.5),
\* reverses its element order, and applies correlate1D exactly three times in
\* the order axis 0, axis 1, axis 2, the input of each stage being the output
\* of the previous stage (the first stage consuming the caller's volume).
\* As a property of the steps: a call on a non-empty volume enters the loop
\* at axis 0 with the caller's volume; each step of the loop correlates the
\* current volume along the loop axis with that kernel and moves to the next
\* axis; the call finishes exactly after the step along axis 2.
C19_GaussianPipeline ==
    [][ /\ (pc = "idle" /\ op' = "gaussian_filter" /\ Size(input') > 0) =>
              /\ pc' = "gaussian_loop" /\ loopAx' = 0
              /\ output' = input' /\ outDen' = 1
        /\ pc = "gaussian_loop" =>
              LET radius == FloorRadius(sigma8)
                  kernel == reverse(gaussian_kernel1d(sigma8, radius))
                  c == correlate1d(output, outDen, kernel, loopAx,
                                   borderType, cval, garbage)
              IN /\ loopAx \in 0..2
                 /\ weights' = kernel
                 /\ Size(weights'.w) = 2 * radius + 1
                 /\ c.wrote /\ output' = c.out /\ outDen' = c.den
                 /\ loopAx' = loopAx + 1
                 /\ (pc' = "done") <=> (loopAx = 2)
                 /\ (pc' = "gaussian_loop") <=> (loopAx < 2)
                 /\ input' = input /\ sigma8' = sigma8
      ]_vars

\* C19 witness: gaussian_filter with sigma = 3/8 (radius 2, a kernel of 5
\* taps) has finished its third correlation on a volume of several samples
C19_Witness ==
    /\ pc = "done" /\ op = "gaussian_filter" /\ err = "none"
    /\ sigma8 = 3 /\ Size(weights.w) = 5 /\ weights.w[1] > 0
    /\ loopAx = 3
    /\ Size(input) > 1 /\ Size(input[0][0]) > 1
    /\ SameShape(output, input)
    /\ output[0][0][0] # NaN

\* C20: SobelFilter3D applies the gradient kernel {-1,0,1} unreversed via
\* correlate1D along the chosen axis first, and then the smoothing kernel
\* {1,2,1} via correlate1D along exactly the two other axes, in ascending axis
\* order, each stage consuming the previous stage's output; the chosen axis is
\* never smoothed.
\* As a property of the steps: a call with a valid axis on a non-empty volume
\* enters the loop at axis 0 with the gradient correlation of the caller's
\* volume along the chosen axis; each step of the loop leaves the volume alone
\* at the chosen axis and otherwise correlates it with {1,2,1} along the loop
\* axis, then moves to the next axis; the call finishes after axis 2.
C20_SobelPipeline ==
    [][ /\ (pc = "idle" /\ op' = "sobel" /\ Size(input') > 0 /\ axis' \in 0..2) =>
              LET gradient == [den |-> 1, w |-> Z(<<-1, 0, 1>>)]
                  c == correlate1d(input', 1, gradient, axis',
                                   borderType', cval', garbage')
              IN /\ pc' = "sobel_loop" /\ loopAx' = 0
                 /\ weights' = gradient
                 /\ c.wrote /\ output' = c.out /\ outDen' = c.den
        /\ pc = "sobel_loop" =>
              LET smoothing == [den |-> 1, w |-> Z(<<1, 2, 1>>)]
                  c == correlate1d(output, outDen, smoothing, loopAx,
                                   borderType, cval, garbage)
              IN /\ loopAx \in 0..2
                 /\ loopAx = axis => (output' = output /\ outDen' = outDen)
                 /\ loopAx # axis =>
                       /\ weights' = smoothing
                       /\ c.wrote /\ output' = c.out /\ outDen' = c.den
                 /\ loopAx' = loopAx + 1
                 /\ (pc' = "done") <=> (loopAx = 2)
                 /\ (pc' = "sobel_loop") <=> (loopAx < 2)
                 /\ input' = input /\ axis' = axis
      ]_vars

\* C20 witness: sobel along axis 1 has finished on a volume of several
\* samples: its last correlation used the smoothing kernel and the result is
\* a gradient that is not zero
C20_Witness ==
    /\ pc = "done" /\ op = "sobel" /\ err = "none"
    /\ axis = 1 /\ loopAx = 3
    /\ weights = [den |-> 1, w |-> Z(<<1, 2, 1>>)]
    /\ Size(input) > 1 /\ Size(input[0][0]) > 1
    /\ SameShape(output, input)
    /\ output[0][0][0] # 0

RaggedInput ==
    IF op = "pad2D" THEN ~Rectangular2(input) ELSE ~Rectangular3(input)

\* C22: a ragged volume passed to padding, correlation or a filter pipeline is
\* reported as DimensionMismatch: no such call returns without that error.
C22_RaggedReported ==
    (/\ pc = "done"
     /\ op \in {"pad2D", "pad3D", "correlate1d", "gaussian_filter", "sobel"}
     /\ Size(input) > 0
     /\ RaggedInput)
       => err = "DimensionMismatch"

\* C23: extractSlice fails with InvalidArgument on the empty volume, with
\* OutOfRange when z is outside [0, depth), and otherwise returns slice z of
\* the volume, which it leaves as it was.
C23_ExtractSlice ==
    (pc = "done" /\ op = "extractSlice") =>
       /\ Size(input) = 0 => err = "InvalidArgument"
       /\ (Size(input) > 0 /\ (z_arg < 0 \/ z_arg >= Size(input)))
             => err = "OutOfRange"
       /\ (Size(input) > 0 /\ z_arg >= 0 /\ z_arg < Size(input))
             => (err = "none" /\ output = input[z_arg])

\* extractSlice returned slice 1 of a volume whose slices differ, and was also
\* called with z = depth
C23_Witness ==
    /\ pc = "done" /\ op = "extractSlice" /\ err = "none"
    /\ z_arg = 1 /\ Size(input) = 2
    /\ output = input[1] /\ input[1] # input[0]

\* whether save_mat3d_to_dcm is running or has returned
Saving == op = "save_mat3d_to_dcm"

\* C24: every written pixel is an integer in [0, 65535]: 0 for a negative
\* sample, 65535 for a sample of 65535 or more, and otherwise the integer
\* nearest to the sample; the filtered volume itself keeps its negative,
\* fractional and large samples.
C24_ClampThenRound ==
    Saving =>
       \A k \in DOMAIN files :
          \A y \in DOMAIN output[k - 1] : \A x \in DOMAIN output[k - 1][y] :
             LET p == files[k].PixelData[y][x]
                 n == output[k - 1][y][x]
                 d == outDen
             IN /\ p \in 0..65535
                /\ (n # NaN /\ n < 0) => p = 0
                /\ (n # NaN /\ n >= 0 /\ n \div d >= 65535) => p = 65535
                /\ (n # NaN /\ n >= 0 /\ n \div d < 65535) =>
                      2 * Abs(p * d - n) <= d

\* a sobel result with a sample above 65535 and a negative sample was saved
\* as pixels 65535 and 0, and the result still holds the two samples
C24_Witness ==
    /\ Saving /\ pc = "done" /\ err = "none" /\ Len(files) = 1
    /\ input = AlongAxis(FullScale, 1)
    /\ \E x \in DOMAIN output[0][0] :
          output[0][0][x] > 65535 /\ files[1].PixelData[0][x] = 65535
    /\ \E x \in DOMAIN output[0][0] :
          output[0][0][x] < 0 /\ output[0][0][x] # NaN
          /\ files[1].PixelData[0][x] = 0

\* C25: a save whose volume depth differs from the number of original slices
\* fails with no file written; otherwise the file of slice z (the z+1-th
\* file) carries the metadata and position of original slice z, and a save
\* that returns normally has written one file per slice.
C25_MetadataCount ==
    Saving =>
       /\ Size(output) # Size(original_slices) =>
             (pc = "done" /\ err = "runtime_error" /\ files = << >>)
       /\ \A k \in DOMAIN files :
             /\ files[k].name = k
             /\ files[k].file_format = original_slices[k - 1].file_format
             /\ files[k].SliceLocation = original_slices[k - 1].z_pos
       /\ (pc = "done" /\ err = "none") => Len(files) = Size(output)

\* a volume of two slices was saved with two original slices: the second
\* file carries the metadata of the second original slice
C25_Witness ==
    /\ Saving /\ pc = "done" /\ err = "none"
    /\ Size(output) = 2 /\ Size(original_slices) = 2 /\ Len(files) = 2
    /\ files[2].file_format = original_slices[1].file_format
    /\ original_slices[1].file_format # original_slices[0].file_format

\* the logical depth indices of the slices pad3D adds
AddedDepths == (-padDepthOf)..(-1) \cup Size(input)..(Size(input) + padDepthOf - 1)

\* the slice pad3D returned at logical depth index d is the row/column-padded
\* input slice src
DepthSliceIs(d, src) ==
    /\ src \in DOMAIN input
    /\ output[d + padDepthOf]
          = pad2D(input[src], padRowOf, padColOf, borderType, cval, garbage)

\* C26 as stated: in a non-Constant mode with padDepth <= depth, every added
\* depth slice d is the padded slice resolve(d, depth, mode).
C26_DepthSliceResolved ==
    (PadReturned("pad3D") /\ Rectangular3(input) /\ borderType \in 1..3
       /\ padDepthOf <= Size(input)) =>
          \A d \in AddedDepths :
             DepthSliceIs(d, getMirrorIndex(d, Size(input), borderType))

\* C26 amended: the added depth slice d is the padded slice resolve(d) for
\* Replicate, for Reflect with padDepth <= depth and for Reflect101 with
\* padDepth <= depth - 1; for every pad amount it is the padded slice
\* clamp(resolve(d), 0, depth - 1).
C26_DepthSliceClamped ==
    (PadReturned("pad3D") /\ Rectangular3(input) /\ borderType \in 1..3) =>
       \A d \in AddedDepths :
          LET r == getMirrorIndex(d, Size(input), borderType)
          IN /\ DepthSliceIs(d, clamp(r, 0, Size(input) - 1))
             /\ (\/ borderType = REPLICATE
                 \/ borderType = REFLECT /\ padDepthOf <= Size(input)
                 \/ borderType = REFLECT_101 /\ padDepthOf <= Size(input) - 1)
                   => DepthSliceIs(d, r)

\* pad3D added two slices on each side of a volume of two slices in Reflect
\* mode: the outermost added slice is the padded far slice of the volume
C26_Witness ==
    /\ PadReturned("pad3D") /\ borderType = REFLECT
    /\ Size(input) = 2 /\ padDepthOf = 2 /\ padColOf = 1
    /\ output[0] = pad2D(input[1], padRowOf, padColOf, borderType, cval, garbage)
    /\ output[0] # output[1]

\* the volume v with its depth axis swapped with its row axis (ax = 0) or
\* with its column axis (ax = 1)
SwapDepth(v, ax) ==
    IF ax = 0
    THEN [i \in DOMAIN v[0] |-> [z \in DOMAIN v |-> [j \in DOMAIN v[0][0] |-> v[z][i][j]]]]
    ELSE [j \in DOMAIN v[0][0] |-> [i \in DOMAIN v[0] |-> [z \in DOMAIN v |-> v[z][i][j]]]]

\* C27: correlate1D along the depth axis of a volume equals, after swapping
\* the axes back, correlate1D along the row axis or the column axis of the
\* volume with the depth axis swapped with that axis (where neither call
\* reads outside a vector).
C27_AxisSymmetry ==
    (Correlated /\ axis = 2 /\ ~ub) =>
       \A ax \in 0..1 :
          ~correlate1dUB(SwapDepth(input, ax), weights, ax, borderType) =>
             SwapDepth(correlate1d(SwapDepth(input, ax), 1, weights, ax,
                                   borderType, cval, 0).out, ax) = output

\* C28: for every non-empty kernel, of odd or even length, every index at
\* which correlate1d reads the kernel lies in [0, ksize - 1] and every index
\* at which it reads the padded buffer lies within the buffer's extent
\* along the filtered axis.
C28_KernelIndexSafety ==
    Correlated =>
       LET ksize == Size(weights.w)
       IN /\ symmetryTestReads(ksize) \subseteq 0..(ksize - 1)
          /\ paddedReads(AxisSize, ksize)
                \subseteq 0..(AxisSize + 2 * (ksize \div 2) - 1)

\* every read pad2D makes through getBorderValue for slice m lies inside m
BorderReadsInside(m) ==
    \A rc \in pad2DReads(m, padRowOf, padColOf, borderType) :
       rc # <<-1, -1>> => InRange2(m, rc[1], rc[2])

\* C29: for every border mode and every pad amount, also beyond the axis
\* extent, every source index pad2D and pad3D read lies inside the source:
\* the row and column read through getBorderValue, and the depth index.
C29_PadSourceInRange ==
    /\ (PadReturned("pad2D") /\ Rectangular2(input)) => BorderReadsInside(input)
    /\ (PadReturned("pad3D") /\ Rectangular3(input)) =>
          /\ \A z \in DOMAIN input : BorderReadsInside(input[z])
          /\ \A d \in AddedDepths :
                pad3DSrcZ(d, Size(input), borderType) \in DOMAIN input

\* the cells of a pad2D result that lie outside the copied input block
BorderCell(m, i, j) ==
    ~(/\ i >= padRowOf /\ i < padRowOf + Size(m)
      /\ j >= padColOf /\ j < padColOf + Size(m[0]))

\* C30: a border-mode code outside {0,1,2,3} raises no error: the resolver
\* returns 0 for every idx, pad2D fills every border cell with input[0][0],
\* and pad3D fills every added depth slice with padded slice 0.
C30_InvalidModeAccepted ==
    /\ (Resolved /\ borderType \in InvalidModes) => ret = 0
    /\ (pc = "done" /\ op \in {"pad2D", "pad3D"} /\ borderType \in InvalidModes
          /\ Size(input) > 0 /\ (op = "pad3D" => Size(pads) >= 2)) => err = "none"
    /\ (PadReturned("pad2D") /\ Rectangular2(input) /\ borderType \in InvalidModes) =>
          \A i \in DOMAIN output : \A j \in DOMAIN output[i] :
             BorderCell(input, i, j) => output[i][j] = input[0][0]
    /\ (PadReturned("pad3D") /\ Rectangular3(input) /\ borderType \in InvalidModes) =>
          /\ \A z \in DOMAIN input :
                \A i \in DOMAIN output[z + padDepthOf] :
                   \A j \in DOMAIN output[z + padDepthOf][i] :
                      BorderCell(input[z], i, j) =>
                         output[z + padDepthOf][i][j] = input[z][0][0]
          /\ \A d \in AddedDepths : output[d + padDepthOf] = output[padDepthOf]

\* pad3D with border code 4 and fill value 50 padded a volume of two
\* different slices by one slice and one column: the added slices equal
\* padded slice 0, whose border cells hold input[0][0][0], not the fill value
C30_Witness ==
    /\ PadReturned("pad3D") /\ borderType = 4 /\ cval = 50
    /\ Size(input) = 2 /\ padDepthOf = 1 /\ padColOf = 1
    /\ output[0] = output[1] /\ output[3] = output[1] /\ output[3] # output[2]
    /\ output[1][0][0] = input[0][0][0] /\ input[0][0][0] # cval

====
